---- MODULE Spec2Model ----
(***************************************************************************)
(* A model of the two scripts of building-pyflink-apps:                    *)
(*   src/src/s15_branching.py     the branching tutorial: union, connect   *)
(*                                with co-functions, splitting, side       *)
(*                                outputs, each a job run by env.execute() *)
(*   src/src/s14_kafka_consumer.py  the consumer loop with its catch-all   *)
(* Each job of the tutorial is its own specification over the shared       *)
(* variables below; a job leaves the variables of the other jobs alone.    *)
(* A source (from_collection) emits its collection in order.  An operator  *)
(* with two inputs (union, connect) takes its next element from either     *)
(* input: the order across the two inputs is not fixed by the program, so  *)
(* every interleaving is a behaviour.                                      *)
(***************************************************************************)
EXTENDS Integers, Sequences, FiniteSets, TLC

VARIABLES
    pc,       \* position of the script inside the job: "running" | "done" (job-specific values below)
    ds1,      \* collection of the first source
    ds2,      \* collection of the second source
    pos1,     \* elements the first source has emitted
    pos2,     \* elements the second source has emitted
    out,      \* what the job's final print() sink has printed, in order
    origin,   \* for each printed element, the input it came from ("A" | "B")
    gen,      \* the generator a flat-map / process call returned, not yet exhausted
    q1,       \* elements in flight on the first input of a two-input sink
    q2,       \* elements in flight on the second input of a two-input sink
    qp,       \* elements in flight to the print() sink of filter2
    out2,     \* what filter2.print() has printed
    main,     \* main output of the process operator in the current execution
    side,     \* side output (output_tag) of the process operator in the current execution
    run,      \* how many env.execute() calls of the side-output section have returned
    first,    \* the outputs of the first execution, kept for comparison
    stdout,   \* lines printed by the script itself
    broker,   \* kafka: the messages the consumer has been handed, in arrival order
    pred,     \* the filter applied to a whole stream ("" before any)
    job       \* the section of the tutorial that is running

vars == <<pc, ds1, ds2, pos1, pos2, out, origin, gen, q1, q2, qp, out2,
          main, side, run, first, stdout, broker, pred, job>>

\* ---------------------------------------------------------------- bounds

\* Longest source collection the input sets hold.
MaxLen == 2

\* Values of the elements the input sets hold.
Vals == {1, 2, 3, 4}

RECURSIVE SeqsUpTo(_, _)
SeqsUpTo(S, n) ==
    IF n = 0 THEN {<<>>}
    ELSE LET shorter == SeqsUpTo(S, n - 1)
         IN  shorter \cup {Append(s, v) : s \in {t \in shorter : Len(t) = n - 1}, v \in S}

Colls == SeqsUpTo(Vals, MaxLen)

\* ---------------------------------------------------------------- helpers

\* The sub-sequence of `o` at the positions where `org` is `s`.
RECURSIVE Project(_, _, _)
Project(o, org, s) ==
    IF o = <<>> THEN <<>>
    ELSE LET rest == Project(Tail(o), Tail(org), s)
         IN  IF Head(org) = s THEN <<Head(o)>> \o rest ELSE rest

\* `o` is an interleaving of `a` and `b`: every element of both, each once,
\* `a`'s in `a`'s order and `b`'s in `b`'s order.
RECURSIVE IsShuffle(_, _, _)
IsShuffle(o, a, b) ==
    IF o = <<>> THEN a = <<>> /\ b = <<>>
    ELSE \/ a # <<>> /\ Head(o) = Head(a) /\ IsShuffle(Tail(o), Tail(a), b)
         \/ b # <<>> /\ Head(o) = Head(b) /\ IsShuffle(Tail(o), a, Tail(b))

\* ---------------------------------------------------------------- sources

\* from_collection, mutated: emits the collection from its end.
from_collection_reversed(coll, pos) == coll[Len(coll) - pos]

\* from_collection(collection=...): the element the source emits after it has
\* emitted `pos` elements; collections are emitted in their own order.
from_collection(coll, pos) == coll[pos + 1]

\* No generator is open: the operator is between two calls of its function.
NoGen == [side |-> "-", pending |-> <<>>]

\* The variables no two-input job of one operator uses.
idleOfMerge == <<gen, q1, q2, qp, out2, main, side, run, first, stdout, broker, pred, job>>

\* ---------------------------------------------------------------- Union

\* Two bounded sources feeding one two-input operator of the section `j`.
InitMerge(j) ==
    /\ pc = "running"
    /\ ds1 \in Colls
    /\ ds2 \in Colls
    /\ pos1 = 0 /\ pos2 = 0
    /\ out = <<>> /\ origin = <<>>
    /\ gen = NoGen /\ q1 = <<>> /\ q2 = <<>> /\ qp = <<>> /\ out2 = <<>>
    /\ main = <<>> /\ side = <<>> /\ run = 0 /\ first = <<>>
    /\ stdout = <<>> /\ broker = <<>> /\ pred = ""
    /\ job = j

InitUnion == InitMerge("union")

\* ds1.union(ds2).print(): the sink takes the next element of ds1.
UnionFrom1 ==
    /\ job = "union"
    /\ pc = "running"
    /\ pos1 < Len(ds1)
    /\ out' = Append(out, from_collection(ds1, pos1))
    /\ origin' = Append(origin, "A")
    /\ pos1' = pos1 + 1
    /\ UNCHANGED <<pc, ds1, ds2, pos2>>
    /\ UNCHANGED idleOfMerge

\* ds1.union(ds2).print(): the sink takes the next element of ds2.
UnionFrom2 ==
    /\ job = "union"
    /\ pc = "running"
    /\ pos2 < Len(ds2)
    /\ out' = Append(out, from_collection(ds2, pos2))
    /\ origin' = Append(origin, "B")
    /\ pos2' = pos2 + 1
    /\ UNCHANGED <<pc, ds1, ds2, pos1>>
    /\ UNCHANGED idleOfMerge

\* env.execute() returns once both bounded sources are drained and the
\* operator has emitted everything its last call produced.
ExecuteReturns ==
    /\ pc = "running"
    /\ pos1 = Len(ds1)
    /\ pos2 = Len(ds2)
    /\ gen = NoGen
    /\ pc' = "done"
    /\ UNCHANGED <<ds1, ds2, pos1, pos2, out, origin>>
    /\ UNCHANGED idleOfMerge

NextUnion == UnionFrom1 \/ UnionFrom2 \/ ExecuteReturns

SpecUnion == InitUnion /\ [][NextUnion]_vars

\* C1: once the union job has finished, what it printed is an interleaving of
\* the two collections: every element of A and of B exactly once, A's elements
\* in A's order and B's in B's order, whichever input the sink took from at
\* each step.
C1_UnionIsOrderPreservingMerge ==
    /\ Project(out, origin, "A") = SubSeq(ds1, 1, pos1)
    /\ Project(out, origin, "B") = SubSeq(ds2, 1, pos2)
    /\ pc = "done" => /\ Len(out) = Len(ds1) + Len(ds2)
                      /\ IsShuffle(out, ds1, ds2)

\* The tutorial's own collections, merged with an element of B before the last of A.
C1_Witness ==
    /\ pc = "done"
    /\ ds1 = <<1, 2>> /\ ds2 = <<3, 4>>
    /\ out = <<1, 3, 2, 4>>

\* ---------------------------------------------------------------- CoProcessFunction

\* process_element1, mutated: the factor of process_element2.
process_element1_tripled(value) == value * 3

\* MyCoProcessFunction.process_element1: Row(value * 2), one output per call.
process_element1(value) == value * 2

\* MyCoProcessFunction.process_element2: Row(value * 3), one output per call.
process_element2(value) == value * 3

InitCoProcess == InitMerge("coprocess")

\* The co-process operator takes the next element of ds1 and calls process_element1.
ProcessElement1 ==
    /\ pc = "running"
    /\ pos1 < Len(ds1)
    /\ out' = Append(out, process_element1(from_collection(ds1, pos1)))
    /\ origin' = Append(origin, "A")
    /\ pos1' = pos1 + 1
    /\ UNCHANGED <<pc, ds1, ds2, pos2>>
    /\ UNCHANGED idleOfMerge

\* The co-process operator takes the next element of ds2 and calls process_element2.
ProcessElement2 ==
    /\ pc = "running"
    /\ pos2 < Len(ds2)
    /\ out' = Append(out, process_element2(from_collection(ds2, pos2)))
    /\ origin' = Append(origin, "B")
    /\ pos2' = pos2 + 1
    /\ UNCHANGED <<pc, ds1, ds2, pos1>>
    /\ UNCHANGED idleOfMerge

NextCoProcess == ProcessElement1 \/ ProcessElement2 \/ ExecuteReturns

SpecCoProcess == InitCoProcess /\ [][NextCoProcess]_vars

\* C2 as stated: process_element1 and process_element2 fire once per element
\* of their side, and the A side is processed to completion before any element
\* of the B side, so no output derived from B is printed before one derived
\* from A.
C2_ASideCompletesBeforeBSide ==
    /\ Len(out) = pos1 + pos2
    /\ \A i, j \in 1..Len(out) : (i < j /\ origin[j] = "A") => origin[i] = "A"

\* C2 as amended: process_element1 fires exactly once per element of the A side
\* and process_element2 exactly once per element of the B side, each side in
\* its own order; the order across the two sides is not fixed.
C2_OncePerElementEachSideInOrder ==
    /\ Len(out) = pos1 + pos2
    /\ Project(out, origin, "A") = [i \in 1..pos1 |-> 2 * ds1[i]]
    /\ Project(out, origin, "B") = [i \in 1..pos2 |-> 3 * ds2[i]]
    /\ pc = "done" => pos1 = Len(ds1) /\ pos2 = Len(ds2)

\* The tutorial's collections with a B-derived output between the A-derived ones.
C2_Witness ==
    /\ pc = "done"
    /\ ds1 = <<1, 2>> /\ ds2 = <<3, 4>>
    /\ out = <<2, 9, 4, 12>>

\* C3: with A = [1,2] the outputs derived from the A side are [2,4] in that
\* order, whatever the B side holds and wherever its elements fall among A's;
\* in general they are the doubled elements of A in A's order.
C3_ASideOutputIndependentOfB ==
    pc = "done" =>
        /\ Project(out, origin, "A") = [i \in 1..Len(ds1) |-> ds1[i] + ds1[i]]
        /\ ds1 = <<1, 2>> => Project(out, origin, "A") = <<2, 4>>

\* A = [1,2] with another B side than the tutorial's, processed first.
C3_Witness ==
    /\ pc = "done"
    /\ ds1 = <<1, 2>> /\ ds2 = <<4, 1>>
    /\ origin = <<"B", "B", "A", "A">>
    /\ out = <<12, 3, 2, 4>>

\* ---------------------------------------------------------------- CoFlatMapFunction

\* A str is a sequence of one-character strings, so that split, upper and len
\* work on its characters.
Lower == <<"a", "b", "c", "d", "e", "f", "g", "h", "i", "j", "k", "l", "m",
           "n", "o", "p", "q", "r", "s", "t", "u", "v", "w", "x", "y", "z">>
Capital == <<"A", "B", "C", "D", "E", "F", "G", "H", "I", "J", "K", "L", "M",
             "N", "O", "P", "Q", "R", "S", "T", "U", "V", "W", "X", "Y", "Z">>

\* The str as one printable value.
RECURSIVE Str(_)
Str(cs) == IF cs = <<>> THEN "" ELSE Head(cs) \o Str(Tail(cs))

\* str.upper(): lower-case letters to capitals, every other character kept.
upper(cs) ==
    [i \in 1..Len(cs) |->
        IF \E k \in 1..Len(Lower) : Lower[k] = cs[i]
        THEN Capital[CHOOSE k \in 1..Len(Lower) : Lower[k] = cs[i]]
        ELSE cs[i]]

RECURSIVE SplitAcc(_, _, _)
SplitAcc(cs, cur, acc) ==
    IF cs = <<>> THEN Append(acc, cur)
    ELSE IF Head(cs) = " " THEN SplitAcc(Tail(cs), <<>>, Append(acc, cur))
    ELSE SplitAcc(Tail(cs), Append(cur, Head(cs)), acc)

\* split, mutated: str.split() without a separator, which drops the empty tokens.
split_whitespace(value) == SelectSeq(SplitAcc(value, <<>>, <<>>), LAMBDA t : t # <<>>)

\* value.split(" "): cuts at every single space; two adjacent spaces, or a
\* space at either end, give an empty token, and "" gives one empty token.
split(value) == SplitAcc(value, <<>>, <<>>)

\* MyCoFlatMapFunction.flat_map1: for sp in splits: yield sp, len(sp)
flat_map1(value) ==
    LET splits == split(value)
    IN  [k \in 1..Len(splits) |-> <<Str(splits[k]), Len(splits[k])>>]

\* MyCoFlatMapFunction.flat_map2: for sp in splits: yield sp.upper(), len(sp)
flat_map2(value) ==
    LET splits == split(value)
    IN  [k \in 1..Len(splits) |-> <<Str(upper(splits[k])), Len(splits[k])>>]

\* Longest str of the generated inputs.
MaxStr == 2

\* ds1 and ds2 of the tutorial.
HelloApacheFlink ==
    <<"h", "e", "l", "l", "o", " ", "a", "p", "a", "c", "h", "e", " ", "f", "l", "i", "n", "k">>
StreamingCompute ==
    <<"s", "t", "r", "e", "a", "m", "i", "n", "g", " ", "c", "o", "m", "p", "u", "t", "e">>
DataStreamApi ==
    <<"d", "a", "t", "a", " ", "s", "t", "r", "e", "a", "m", " ", "a", "p", "i">>
TableApi == <<"t", "a", "b", "l", "e", " ", "a", "p", "i">>
SqlApi == <<"s", "q", "l", " ", "a", "p", "i">>
FlatDs1 == <<HelloApacheFlink, StreamingCompute>>
FlatDs2 == <<DataStreamApi, TableApi, SqlApi>>

SmallStrs == SeqsUpTo({"a", " "}, MaxStr)

InitCoFlatMap ==
    /\ pc = "running"
    /\ ds1 \in {FlatDs1} \cup {<<s>> : s \in SmallStrs}
                   \cup {<<s, t>> : s \in SmallStrs, t \in SmallStrs}
    /\ ds2 \in {FlatDs2, <<>>, << <<"b", " ", " ", "a">> >>}
    /\ pos1 = 0 /\ pos2 = 0
    /\ out = <<>> /\ origin = <<>>
    /\ gen = NoGen /\ q1 = <<>> /\ q2 = <<>> /\ qp = <<>> /\ out2 = <<>>
    /\ main = <<>> /\ side = <<>> /\ run = 0 /\ first = <<>>
    /\ stdout = <<>> /\ broker = <<>> /\ pred = ""
    /\ job = "coflatmap"

idleOfFlatMap == <<q1, q2, qp, out2, main, side, run, first, stdout, broker, pred, job>>

\* The generator object a call returned, or none when it has nothing to yield.
Opened(s, yields) == IF yields = <<>> THEN NoGen ELSE [side |-> s, pending |-> yields]

\* The operator, having exhausted the previous generator, takes the next
\* element of ds1 and calls flat_map1.
FlatMap1 ==
    /\ pc = "running"
    /\ gen = NoGen
    /\ pos1 < Len(ds1)
    /\ gen' = Opened("A", flat_map1(from_collection(ds1, pos1)))
    /\ pos1' = pos1 + 1
    /\ UNCHANGED <<pc, ds1, ds2, pos2, out, origin>>
    /\ UNCHANGED idleOfFlatMap

\* The operator, having exhausted the previous generator, takes the next
\* element of ds2 and calls flat_map2.
FlatMap2 ==
    /\ pc = "running"
    /\ gen = NoGen
    /\ pos2 < Len(ds2)
    /\ gen' = Opened("B", flat_map2(from_collection(ds2, pos2)))
    /\ pos2' = pos2 + 1
    /\ UNCHANGED <<pc, ds1, ds2, pos1, out, origin>>
    /\ UNCHANGED idleOfFlatMap

\* The operator takes the next value the open generator yields and emits it
\* to print().
Yield ==
    /\ pc = "running"
    /\ gen # NoGen
    /\ out' = Append(out, Head(gen.pending))
    /\ origin' = Append(origin, gen.side)
    /\ gen' = Opened(gen.side, Tail(gen.pending))
    /\ UNCHANGED <<pc, ds1, ds2, pos1, pos2>>
    /\ UNCHANGED idleOfFlatMap

NextCoFlatMap == FlatMap1 \/ FlatMap2 \/ Yield \/ ExecuteReturns

SpecCoFlatMap == InitCoFlatMap /\ [][NextCoFlatMap]_vars

\* Number of " " in a str.
RECURSIVE Spaces(_)
Spaces(cs) ==
    IF cs = <<>> THEN 0 ELSE (IF Head(cs) = " " THEN 1 ELSE 0) + Spaces(Tail(cs))

\* The tokens back together with one " " between two of them.
RECURSIVE Joined(_)
Joined(toks) ==
    IF Len(toks) = 1 THEN toks[1][1] ELSE toks[1][1] \o " " \o Joined(Tail(toks))

\* `o` is, element after element of `coll`, a run of Spaces + 1 tokens that
\* join back to the element.
RECURSIVE ConcatOfSplits(_, _)
ConcatOfSplits(o, coll) ==
    IF coll = <<>> THEN o = <<>>
    ELSE LET n == Spaces(Head(coll)) + 1
         IN  /\ Len(o) >= n
             /\ Joined(SubSeq(o, 1, n)) = Str(Head(coll))
             /\ ConcatOfSplits(SubSeq(o, n + 1, Len(o)), Tail(coll))

\* The outputs of one input element are next to each other in `org`: starting
\* with elements i of ds1 and j of ds2, `org` is made of whole runs.
RECURSIVE WholeRuns(_, _, _)
WholeRuns(org, i, j) ==
    IF org = <<>> THEN TRUE
    ELSE LET s == Head(org)
             n == IF s = "A" THEN Spaces(ds1[i]) + 1 ELSE Spaces(ds2[j]) + 1
             m == IF n < Len(org) THEN n ELSE Len(org)
         IN  /\ \A k \in 1..m : org[k] = s
             /\ WholeRuns(SubSeq(org, m + 1, Len(org)),
                          IF s = "A" THEN i + 1 ELSE i, IF s = "B" THEN j + 1 ELSE j)

\* C6: each flat-map call's generator is exhausted before the operator takes
\* another input element, so the outputs of one element are never split by
\* those of another, and on each side the output is the concatenation, in input
\* order, of the elements' token sequences, its length the sum of their
\* lengths; every output pairs a token with its length.  For the tutorial's
\* ds1 the A side is ('hello',5) ('apache',6) ('flink',5) ('streaming',9)
\* ('compute',7).
C6_FlatMapConcatenatesInInputOrder ==
    /\ WholeRuns(origin, 1, 1)
    /\ \A k \in 1..Len(out) : out[k][2] = Len(out[k][1])
    /\ pc = "done" =>
        /\ ConcatOfSplits(Project(out, origin, "A"), ds1)
        /\ ConcatOfSplits(Project(out, origin, "B"), [i \in 1..Len(ds2) |-> upper(ds2[i])])
        /\ ds1 = FlatDs1 =>
               Project(out, origin, "A") =
                   << <<"hello", 5>>, <<"apache", 6>>, <<"flink", 5>>,
                      <<"streaming", 9>>, <<"compute", 7>> >>
        /\ ds2 = FlatDs2 =>
               Project(out, origin, "B") =
                   << <<"DATA", 4>>, <<"STREAM", 6>>, <<"API", 3>>, <<"TABLE", 5>>,
                      <<"API", 3>>, <<"SQL", 3>>, <<"API", 3>> >>

\* The tutorial's inputs, with the first element of ds2 handled between the two of ds1.
C6_Witness ==
    /\ pc = "done"
    /\ ds1 = FlatDs1 /\ ds2 = FlatDs2
    /\ Len(out) = 12
    /\ out[4] = <<"DATA", 4>> /\ out[7] = <<"streaming", 9>>

\* ---------------------------------------------------------------- Splitting Streams

\* range(10) of the splitting job.
RangeSplit == 10

\* range(n): 0, 1, ..., n - 1.
range(n) == [i \in 1..n |-> i - 1]

\* filter1's lambda, mutated: the test e > 0 left out.
filter1_lambda_with_zero(e) == e % 2 = 0

\* filter1 = ds.filter(lambda e: e > 0 and e % 2 == 0)
filter1_lambda(e) == e > 0 /\ e % 2 = 0

\* filter2 = ds.filter(lambda e: e % 2 != 0)
filter2_lambda(e) == e % 2 # 0

\* map = filter1.map(lambda e: e * 2)
map_lambda(e) == e * 2

\* The predicate of the filter named `p`.
Keeps(p, e) == IF p = "filter1" THEN filter1_lambda(e) ELSE filter2_lambda(e)

RECURSIVE filter_newest_first(_, _)
\* filter, mutated: the survivors are pushed in front of the earlier ones.
filter_newest_first(S, p) ==
    IF S = <<>> THEN <<>>
    ELSE filter_newest_first(Tail(S), p) \o (IF Keeps(p, Head(S)) THEN <<Head(S)>> ELSE <<>>)

RECURSIVE filter_in_order(_, _)
filter_in_order(S, p) ==
    IF S = <<>> THEN <<>>
    ELSE (IF Keeps(p, Head(S)) THEN <<Head(S)>> ELSE <<>>) \o filter_in_order(Tail(S), p)

\* ds.filter(p) over the whole stream S: the elements p keeps, forwarded one
\* by one as they arrive.
filter(S, p) == filter_in_order(S, p)

InitSplit ==
    /\ pc = "running"
    /\ ds1 = range(RangeSplit)
    /\ ds2 = <<>>
    /\ pos1 = 0 /\ pos2 = 0
    /\ out = <<>> /\ origin = <<>>
    /\ gen = NoGen /\ q1 = <<>> /\ q2 = <<>> /\ qp = <<>> /\ out2 = <<>>
    /\ main = <<>> /\ side = <<>> /\ run = 0 /\ first = <<>>
    /\ stdout = <<>> /\ broker = <<>> /\ pred = ""
    /\ job = "split"

idleOfSplit == <<ds1, ds2, pos2, gen, main, side, run, first, stdout, broker, pred, job>>

\* The source emits its next element to both filters.  What filter1 keeps goes
\* through map to the first input of map.union(filter2).print(); what filter2
\* keeps goes to each of its two consumers, filter2.print() and the second
\* input of the union.
SourceEmits ==
    /\ pc = "running"
    /\ pos1 < Len(ds1)
    /\ LET e == from_collection(ds1, pos1)
           kept1 == filter(<<e>>, "filter1")
           kept2 == filter(<<e>>, "filter2")
       IN  /\ q1' = q1 \o [i \in 1..Len(kept1) |-> map_lambda(kept1[i])]
           /\ qp' = qp \o kept2
           /\ q2' = q2 \o kept2
    /\ pos1' = pos1 + 1
    /\ UNCHANGED <<pc, ds1, ds2, pos2, out, origin, out2>>
    /\ UNCHANGED <<gen, main, side, run, first, stdout, broker, pred, job>>

\* filter2.print() prints its next element.
PrintFilter2 ==
    /\ pc = "running"
    /\ qp # <<>>
    /\ out2' = Append(out2, Head(qp))
    /\ qp' = Tail(qp)
    /\ UNCHANGED <<pc, pos1, out, origin, q1, q2>>
    /\ UNCHANGED idleOfSplit

\* map.union(filter2).print() takes its next element from map.
SinkFromMap ==
    /\ pc = "running"
    /\ q1 # <<>>
    /\ out' = Append(out, Head(q1))
    /\ origin' = Append(origin, "A")
    /\ q1' = Tail(q1)
    /\ UNCHANGED <<pc, pos1, q2, qp, out2>>
    /\ UNCHANGED idleOfSplit

\* map.union(filter2).print() takes its next element from filter2.
SinkFromFilter2 ==
    /\ pc = "running"
    /\ q2 # <<>>
    /\ out' = Append(out, Head(q2))
    /\ origin' = Append(origin, "B")
    /\ q2' = Tail(q2)
    /\ UNCHANGED <<pc, pos1, q1, qp, out2>>
    /\ UNCHANGED idleOfSplit

\* env.execute() returns once the source is drained and both sinks have
\* printed everything sent to them.
ExecuteReturnsSplit ==
    /\ pc = "running"
    /\ pos1 = Len(ds1)
    /\ q1 = <<>> /\ q2 = <<>> /\ qp = <<>>
    /\ pc' = "done"
    /\ UNCHANGED <<pos1, out, origin, q1, q2, qp, out2>>
    /\ UNCHANGED idleOfSplit

NextSplit ==
    SourceEmits \/ PrintFilter2 \/ SinkFromMap \/ SinkFromFilter2 \/ ExecuteReturnsSplit

SpecSplit == InitSplit /\ [][NextSplit]_vars

\* `p` is the beginning of `s`.
IsPrefix(p, s) == Len(p) <= Len(s) /\ p = SubSeq(s, 1, Len(p))

\* C10: filter2 feeds filter2.print() and the union.  What one consumer has
\* taken is never missing or reordered for the other: at every moment each has
\* received (printed or still in flight) the same sequence, and at the end
\* each has printed 1 3 5 7 9 in order; the union printed 4 8 12 16 and
\* 1 3 5 7 9, nine elements, and 0 in neither branch.
C10_BothConsumersReceiveWholeStream ==
    /\ out2 \o qp = Project(out, origin, "B") \o q2
    /\ IsPrefix(out2 \o qp, <<1, 3, 5, 7, 9>>)
    /\ IsPrefix(Project(out, origin, "A") \o q1, <<4, 8, 12, 16>>)
    /\ pc = "done" =>
        /\ out2 = <<1, 3, 5, 7, 9>>
        /\ Project(out, origin, "B") = <<1, 3, 5, 7, 9>>
        /\ Project(out, origin, "A") = <<4, 8, 12, 16>>
        /\ Len(out) = 9
        /\ \A k \in 1..Len(out) : out[k] # 0

\* The union took all of filter2's elements before any of map's, and both
\* consumers of filter2 still end with all five.
C10_Witness ==
    /\ pc = "done"
    /\ out = <<1, 3, 5, 7, 9, 4, 8, 12, 16>>
    /\ out2 = <<1, 3, 5, 7, 9>>

\* ---------------------------------------------------------------- filter, as a function of the stream

\* Values of the elements of the filtered streams.
FilterVals == {0, 1, 2, 3, 4}

InitFilter ==
    /\ pc = "stream"
    /\ ds1 \in SeqsUpTo(FilterVals, MaxLen) \cup {range(RangeSplit)}
    /\ ds2 = <<>>
    /\ pos1 = 0 /\ pos2 = 0
    /\ out = <<>> /\ origin = <<>>
    /\ gen = NoGen /\ q1 = <<>> /\ q2 = <<>> /\ qp = <<>> /\ out2 = <<>>
    /\ main = <<>> /\ side = <<>> /\ run = 0 /\ first = <<>>
    /\ stdout = <<>> /\ broker = <<>> /\ pred = ""
    /\ job = "filter"

idleOfFilter ==
    <<ds1, ds2, pos1, pos2, origin, gen, q1, q2, qp, main, side, run, first, stdout, broker,
      job>>

\* ds.filter(p), for p the lambda of filter1 or of filter2.
Filter ==
    /\ pc = "stream"
    /\ \E p \in {"filter1", "filter2"} :
        /\ out' = filter(ds1, p)
        /\ pred' = p
    /\ pc' = "filtered"
    /\ UNCHANGED out2
    /\ UNCHANGED idleOfFilter

\* The same filter over the filtered stream.
FilterAgain ==
    /\ pc = "filtered"
    /\ out2' = filter(out, pred)
    /\ pc' = "refiltered"
    /\ UNCHANGED <<out, pred>>
    /\ UNCHANGED idleOfFilter

NextFilter == Filter \/ FilterAgain

SpecFilter == InitFilter /\ [][NextFilter]_vars

\* The k-th smallest member of a set of indices.
Kth(idx, k) == CHOOSE i \in idx : Cardinality({j \in idx : j <= i}) = k

\* C9: filter(S, p) holds exactly the elements of S that p keeps, in the
\* order they have in S, and filtering the result again with p changes nothing.
C9_FilterIdempotentOrderPreserving ==
    /\ pc \in {"filtered", "refiltered"} =>
        LET idx == {i \in 1..Len(ds1) : Keeps(pred, ds1[i])}
        IN  /\ Len(out) = Cardinality(idx)
            /\ \A k \in 1..Len(out) : out[k] = ds1[Kth(idx, k)]
    /\ pc = "refiltered" => out2 = out

\* filter1 applied twice to 0..9.
C9_Witness ==
    /\ pc = "refiltered"
    /\ ds1 = range(RangeSplit)
    /\ pred = "filter1"
    /\ out = <<2, 4, 6, 8>>
    /\ out2 = <<2, 4, 6, 8>>

\* ---------------------------------------------------------------- Side Outputs

\* range(5) of the side-output job.
RangeSide == 5

\* output_tag = OutputTag("side-output", Types.STRING())
output_tag == "side-output"

\* What the generator yields for the regular output carries no tag.
NoTag == ""

\* process_element, mutated: the regular output is emitted only for a value
\* that is true, so not for 0.
process_element_skips_falsy(value) ==
    (IF value # 0 THEN <<[tag |-> NoTag, value |-> value]>> ELSE <<>>)
        \o <<[tag |-> output_tag, value |-> "sideoutput-" \o ToString(value)]>>

\* MyProcessFunction.process_element: yield value, then
\* yield output_tag, "sideoutput-" + str(value)
process_element(value) ==
    <<[tag |-> NoTag, value |-> value],
      [tag |-> output_tag, value |-> "sideoutput-" \o ToString(value)]>>

\* execute, mutated: an output keeps what the previous execution left in it.
execute_keeps_previous(previous) == previous

\* An output of the operator when env.execute() starts the job: empty,
\* whatever an earlier execution put there.
execute_initial(previous) == <<>>

InitSide ==
    /\ pc = "running"
    /\ ds1 \in Colls \cup {range(RangeSide)}
    /\ ds2 = <<>>
    /\ pos1 = 0 /\ pos2 = 0
    /\ out = <<>> /\ origin = <<>>
    /\ gen = NoGen /\ q1 = <<>> /\ q2 = <<>> /\ qp = <<>> /\ out2 = <<>>
    /\ main = <<>> /\ side = <<>> /\ run = 0 /\ first = <<>>
    /\ stdout = <<"==== main data stream">> /\ broker = <<>> /\ pred = ""
    /\ job = "side"

idleOfSide == <<ds1, ds2, pos2, out, origin, q1, q2, qp, out2, broker, pred, job>>

\* The process operator, having exhausted the previous generator, takes the
\* next element of ds and calls process_element.
ProcessElement ==
    /\ job = "side"
    /\ pc = "running"
    /\ gen = NoGen
    /\ pos1 < Len(ds1)
    /\ gen' = Opened("P", process_element(from_collection(ds1, pos1)))
    /\ pos1' = pos1 + 1
    /\ UNCHANGED <<pc, main, side, run, first, stdout>>
    /\ UNCHANGED idleOfSide

\* The operator takes the next value the generator yields: a value paired with
\* output_tag goes to the side output, any other to the main output.  The first
\* execution has main_data_stream.print() as its sink, the second
\* side_output_stream.print().
ProcessYield ==
    /\ job = "side"
    /\ pc = "running"
    /\ gen # NoGen
    /\ LET y == Head(gen.pending)
       IN  /\ main' = IF y.tag = output_tag THEN main ELSE Append(main, y.value)
           /\ side' = IF y.tag = output_tag THEN Append(side, y.value) ELSE side
           /\ stdout' = IF (run = 0 /\ y.tag # output_tag) \/ (run = 1 /\ y.tag = output_tag)
                        THEN Append(stdout, y.value)
                        ELSE stdout
    /\ gen' = Opened(gen.side, Tail(gen.pending))
    /\ UNCHANGED <<pc, pos1, run, first>>
    /\ UNCHANGED idleOfSide

\* The first env.execute() returns; the script prints the second heading, adds
\* side_output_stream.print() and calls env.execute() again, which runs the
\* source and the process operator from the start.
FirstExecuteReturns ==
    /\ job = "side"
    /\ pc = "running"
    /\ run = 0
    /\ pos1 = Len(ds1)
    /\ gen = NoGen
    /\ first' = [main |-> main, side |-> side, source |-> ds1]
    /\ stdout' = Append(stdout, "==== side output stream")
    /\ run' = 1
    /\ pos1' = 0
    /\ main' = execute_initial(main)
    /\ side' = execute_initial(side)
    /\ UNCHANGED <<pc, gen>>
    /\ UNCHANGED idleOfSide

\* The second env.execute() returns and the script ends.
SecondExecuteReturns ==
    /\ job = "side"
    /\ pc = "running"
    /\ run = 1
    /\ pos1 = Len(ds1)
    /\ gen = NoGen
    /\ run' = 2
    /\ pc' = "done"
    /\ UNCHANGED <<pos1, gen, main, side, first, stdout>>
    /\ UNCHANGED idleOfSide

NextSide == ProcessElement \/ ProcessYield \/ FirstExecuteReturns \/ SecondExecuteReturns

SpecSide == InitSide /\ [][NextSide]_vars

\* C4: the main output and the side output each hold one element per input
\* element handled, in input order: the main output the values themselves, the
\* side output 'sideoutput-<value>', neither holding an element of the other.
\* For 0..4 the main stream is 0 1 2 3 4 and the side stream sideoutput-0 ...
\* sideoutput-4, printed by the first and by the second execution.
C4_MainAndSideOutputsKeepInputOrder ==
    /\ main = SubSeq(ds1, 1, Len(main))
    /\ side = [i \in 1..Len(side) |-> "sideoutput-" \o ToString(ds1[i])]
    /\ Len(side) <= Len(main) /\ Len(main) <= Len(side) + 1
    /\ pc = "done" => Len(main) = Len(ds1) /\ Len(side) = Len(ds1)
    /\ (pc = "done" /\ ds1 = <<0, 1, 2, 3, 4>>) =>
        /\ main = <<0, 1, 2, 3, 4>>
        /\ side = <<"sideoutput-0", "sideoutput-1", "sideoutput-2", "sideoutput-3",
                    "sideoutput-4">>
        /\ stdout = <<"==== main data stream", 0, 1, 2, 3, 4,
                      "==== side output stream", "sideoutput-0", "sideoutput-1",
                      "sideoutput-2", "sideoutput-3", "sideoutput-4">>

\* Both executions over 0..4 are over.
C4_Witness ==
    /\ pc = "done"
    /\ ds1 = range(RangeSide)
    /\ Len(main) = 5 /\ Len(side) = 5

\* ---------------------------------------------------------------- the same job executed twice

\* The union job with the tutorial's collections, or shorter ones.
InitUnionTwice ==
    /\ InitMerge("union")
    /\ ds1 \in {<<1, 2>>} \cup SeqsUpTo({1}, MaxLen)
    /\ ds2 \in {<<3, 4>>} \cup SeqsUpTo({3}, MaxLen)

\* env.execute() of the union job returns; the job is then executed a second
\* time over the same collections (the section run again), from the start,
\* the first execution's print-out kept beside it for comparison.
UnionFirstExecuteReturns ==
    /\ job = "union"
    /\ pc = "running"
    /\ run = 0
    /\ pos1 = Len(ds1)
    /\ pos2 = Len(ds2)
    /\ first' = [out |-> out, origin |-> origin, source |-> <<ds1, ds2>>]
    /\ run' = 1
    /\ pos1' = 0
    /\ pos2' = 0
    /\ out' = execute_initial(out)
    /\ origin' = execute_initial(origin)
    /\ UNCHANGED <<pc, ds1, ds2, gen, q1, q2, qp, out2, main, side, stdout, broker, pred, job>>

\* The second execution of the union job returns.
UnionSecondExecuteReturns ==
    /\ job = "union"
    /\ pc = "running"
    /\ run = 1
    /\ pos1 = Len(ds1)
    /\ pos2 = Len(ds2)
    /\ run' = 2
    /\ pc' = "done"
    /\ UNCHANGED <<ds1, ds2, pos1, pos2, out, origin, first>>
    /\ UNCHANGED <<gen, q1, q2, qp, out2, main, side, stdout, broker, pred, job>>

InitTwice == InitSide \/ InitUnionTwice

NextTwice ==
    \/ ProcessElement
    \/ ProcessYield
    \/ FirstExecuteReturns
    \/ SecondExecuteReturns
    \/ UnionFrom1
    \/ UnionFrom2
    \/ UnionFirstExecuteReturns
    \/ UnionSecondExecuteReturns

SpecTwice == InitTwice /\ [][NextTwice]_vars

MaxMsgs == 3

\* The messages the broker may deliver: a key (None or a key) and the bytes
\* of the value, which are "a" (97), "b" (98) and a byte no UTF-8 text holds.
Messages ==
    {[key |-> k, value |-> v] : k \in {"None", "k1"},
                                v \in {<<97>>, <<98, 97>>, <<255>>, <<97, 255>>}}

\* value_deserializer's x.decode('utf-8') on bytes below 0x80, which stand for
\* themselves; a byte of Bytes from 0x80 on starts no valid sequence.
Decodable(x) == \A i \in 1..Len(x) : x[i] < 128
decode(x) == [i \in 1..Len(x) |-> Lower[x[i] - 96]]

\* Where the script goes after the except block, mutated: back to creating a
\* consumer.
after_except_retry == "create"

\* Where the script goes after the except block: to its end.
after_except == "end"

\* The two lines of the except block.  `ex` names the exception.
Failed(ex) == <<[kind |-> "failed", text |-> "Failed to read kafka message."],
                [kind |-> "ex", text |-> ex]>>

InitKafka ==
    /\ pc = "create"
    /\ ds1 = <<>> /\ ds2 = <<>>
    /\ pos1 = 0 /\ pos2 = 0
    /\ out = <<>> /\ origin = <<>>
    /\ gen = NoGen /\ q1 = <<>> /\ q2 = <<>> /\ qp = <<>> /\ out2 = <<>>
    /\ main = <<>> /\ side = <<>> /\ run = 0 /\ first = <<>>
    /\ stdout = <<[kind |-> "started", text |-> "Kafka Consumer Application Started ... "]>>
    /\ broker = <<>> /\ pred = ""
    /\ job = "kafka"

idleOfKafka ==
    <<ds1, ds2, pos1, pos2, out, origin, gen, q1, q2, qp, out2, main, side, first, pred, job>>

\* KafkaConsumer(...) returns a consumer.  `run` counts the consumers created
\* (the script creates one; the guard on `run` only keeps the count finite).
CreateConsumer ==
    /\ pc = "create"
    /\ run < MaxMsgs
    /\ run' = run + 1
    /\ pc' = "iterate"
    /\ UNCHANGED <<stdout, broker>>
    /\ UNCHANGED idleOfKafka

\* KafkaConsumer(...) raises (no broker reachable): the except block prints
\* the failure and the script goes on after it.
CreateConsumerRaises ==
    /\ pc = "create"
    /\ run < MaxMsgs
    /\ run' = run + 1
    /\ stdout' = stdout \o Failed("NoBrokersAvailable")
    /\ pc' = after_except
    /\ UNCHANGED broker
    /\ UNCHANGED idleOfKafka

\* The iterator hands the loop body the next message, its value decoded; the
\* body prints the type, the key and the value.
MessageReceived ==
    /\ pc = "iterate"
    /\ Len(broker) < MaxMsgs
    /\ \E m \in Messages :
        /\ Decodable(m.value)
        /\ broker' = Append(broker, m)
        /\ stdout' = stdout \o
               <<[kind |-> "type", text |-> "<class 'kafka.consumer.fetcher.ConsumerRecord'>"],
                 [kind |-> "key", text |-> m.key],
                 [kind |-> "message", text |-> Str(decode(m.value))]>>
    /\ UNCHANGED <<pc, run>>
    /\ UNCHANGED idleOfKafka

\* The iterator fetches a message whose value the deserializer cannot decode:
\* the exception leaves the loop before the body runs.
MessageUndecodable ==
    /\ pc = "iterate"
    /\ Len(broker) < MaxMsgs
    /\ \E m \in Messages :
        /\ ~Decodable(m.value)
        /\ broker' = Append(broker, m)
    /\ stdout' = stdout \o Failed("UnicodeDecodeError")
    /\ pc' = after_except
    /\ UNCHANGED run
    /\ UNCHANGED idleOfKafka

\* The iterator raises a transport error instead of handing over a message.
ReceiveRaises ==
    /\ pc = "iterate"
    /\ stdout' = stdout \o Failed("KafkaError")
    /\ pc' = after_except
    /\ UNCHANGED <<run, broker>>
    /\ UNCHANGED idleOfKafka

NextKafka ==
    \/ CreateConsumer
    \/ CreateConsumerRaises
    \/ MessageReceived
    \/ MessageUndecodable
    \/ ReceiveRaises

SpecKafka == InitKafka /\ [][NextKafka]_vars

\* The lines of `lines` of the kinds `kinds`.
OfKind(lines, kinds) == SelectSeq(lines, LAMBDA l : l.kind \in kinds)

\* The messages of `msgs` whose value is text.
Texts(msgs) == SelectSeq(msgs, LAMBDA m : \A i \in 1..Len(m.value) : m.value[i] \in {97, 98})

\* C8: an error raised while the consumer is created or while a message is
\* received is reported once and nothing is tried again: at most one consumer
\* is ever created, the report is the last thing printed, after it no message
\* is received or printed and the script has ended; every message handed over
\* before the error was printed, in arrival order.
C8_OneFailureReportNoRetry ==
    /\ run <= 1
    /\ Len(OfKind(stdout, {"failed"})) = (IF pc = "end" THEN 1 ELSE 0)
    /\ pc = "end" =>
        /\ stdout[Len(stdout) - 1].kind = "failed"
        /\ stdout[Len(stdout)].kind = "ex"
        /\ ~ENABLED NextKafka
    /\ LET printed == OfKind(stdout, {"message"})
           handed == Texts(broker)
       IN  /\ Len(printed) = Len(handed)
           /\ \A i \in 1..Len(printed) :
                  /\ handed[i].value = <<97>> => printed[i].text = "a"
                  /\ handed[i].value = <<98, 97>> => printed[i].text = "ba"
    /\ Len(OfKind(stdout, {"type"})) = Len(OfKind(stdout, {"message"}))
    /\ Len(OfKind(stdout, {"key"})) = Len(OfKind(stdout, {"message"}))

\* Two messages were printed and then receiving failed.
C8_Witness ==
    /\ pc = "end"
    /\ Len(broker) = 2
    /\ Len(OfKind(stdout, {"message"})) = 2
    /\ stdout[Len(stdout)].text = "KafkaError"

====
